---- MODULE Spec2Model ----
(***************************************************************************)
(* T.I.Y.A desktop assistant: the login -> credential-check ->            *)
(* credential-setup -> assistant flow of main_app.py, the assistant       *)
(* window of main_assistant.py with its worker threads, and the           *)
(* credential-setup window of api_setup.py with its validation thread.    *)
(*                                                                         *)
(* One interactive (Qt event-loop) context runs the handlers; every       *)
(* handler is one action.  Worker threads are separate actions.  A call   *)
(* QTimer.singleShot(0, f) made by a worker appends f to ui_queue, which  *)
(* the interactive context consumes in FIFO order; delayed timers of the  *)
(* interactive context are kept in the bag `timers`.  A modal message box *)
(* (QMessageBox.exec) suspends its handler in a nested event loop: the    *)
(* rest of the handler is the continuation kept on the stack `modal`.     *)
(***************************************************************************)
EXTENDS Integers, Sequences, FiniteSets, TLC

\* ------------------------------------------------------------------ bounds
MaxInputs == 3     \* user inputs in one run: button presses, messages sent, key edits,
                   \* utterances of the wake word

\* ------------------------------------------------------- values and inputs
None == "None"
StoredKey == "AIza-stored-key-0123456789"
TypedUsers == {"operator", "Operator", "mallory"}
TypedSecrets == {"quantum", "bad"}
TypedMessages == {"", " ", "hello"}
Entries == {"main_app", "main_assistant", "api_setup"}

\* str.lower() on the typed identifiers of the model
Lower(s) == IF s = "Operator" THEN "operator" ELSE s

\* str.title() on the identifiers of the allow-list
Title(s) == IF s = "operator" THEN "Operator" ELSE s

AllowedUsers == {"daksh lohchab", "operator", "admin", "tiya"}

\* an allow-list whose entry for operator carries another secret
valid_users_with_other_secret ==
  [u \in AllowedUsers |->
     CASE u = "daksh lohchab" -> "886"
       [] u = "operator" -> "bad"
       [] u = "admin" -> "singularity"
       [] u = "tiya" -> "protocol"]

valid_users ==
  [u \in AllowedUsers |->
     CASE u = "daksh lohchab" -> "886"
       [] u = "operator" -> "quantum"
       [] u = "admin" -> "singularity"
       [] u = "tiya" -> "protocol"]

\* the condition of TIYAApplication.handle_login
credentials_match_unchecked_secret(username, password) == username \in AllowedUsers

credentials_match(username, password) ==
  username \in AllowedUsers /\ password = valid_users[username]

\* hash_username: sha256 of the lower-cased name, kept symbolic
hash_username(username) == <<"sha256", Lower(username)>>

TimerKinds == {"process_login", "check_user_api_key", "show_main_assistant",
               "show_api_setup", "reset_status"}

VARIABLES
  entry,            \* the script that was started
  app_state,        \* "running" | "aborted" (unhandled exception ended the process)
  AUDIO_AVAILABLE,  \* speech_recognition and pyttsx3 import succeeded
  GEMINI_AVAILABLE, \* google.generativeai import succeeded
  fb_initialized,   \* firebase_manager.initialized
  fb_docs,          \* users collection: user_hash -> api_key field, or None
  current_user,     \* TIYAApplication.current_user
  api_key,          \* TIYAApplication.api_key
  login_window,     \* "none" | "shown" | "closed"
  login_status,     \* object name of the login status label
  username_field, password_field,
  inputs,           \* user inputs so far
  timers,           \* pending delayed QTimer.singleShot callbacks
  modal,            \* open message boxes, innermost first
  api_setup_window, \* TIYAApplication.api_setup_window: "none" | "shown" | "closed"
  lookup_message,   \* message of the last get_user_api_key result, "" before the first
  ui_blocking,      \* external calls the interactive context has executed itself
  assistants_created,
  store_result,     \* arguments and outcome of the last store_user_api_key call
  raised_error,     \* text of the exception the generative client raised last
  error_label       \* what the except branch made of raised_error

\* every variable of the application object but the input counter
appRest == <<entry, app_state, AUDIO_AVAILABLE, GEMINI_AVAILABLE, fb_initialized,
             fb_docs, current_user, api_key, login_window, login_status,
             username_field, password_field, timers, modal,
             api_setup_window, lookup_message, ui_blocking, assistants_created,
             store_result, raised_error, error_label>>

appVars == <<appRest, inputs>>

errVars == <<raised_error, error_label>>

\* ------------------------------------------------ assistant window state
VARIABLES
  assistant_window, \* "none" | "open" | "closed"
  win_api_key,      \* EnhancedTIYAAssistant.api_key
  win_username,     \* EnhancedTIYAAssistant.username
  transcript,       \* the chat bubbles of chat_layout, oldest first
  hud_status,       \* CircularHUD.status
  hud_levels,       \* CircularHUD.audio_levels: "zero" | "active"
  status_label,     \* text of the status label
  mic_checked,      \* mic_button.isChecked()
  mute_checked,     \* mute_button.isChecked(): audio output enabled
  tasks_submitted,  \* completion requests submitted so far
  resp_threads,     \* ids of the response_thread workers still running
  delivered,        \* task id -> number of outcomes processed by the interactive context
  overlapped,       \* a completion request was submitted while another was unresolved
  ui_queue,         \* callbacks posted to the interactive context, oldest first
  listen_starting,  \* listen_thread_fn workers that have not posted LISTENING yet
  listen_capturing, \* listen_thread_fn workers holding the microphone
  wake_ignored,     \* wakeWordDetected events handle_wake_word dropped (mic off)
  speak_starting,   \* speak_thread workers that have not run yet
  speak_speaking,   \* speak_thread workers between SPEAKING and runAndWait
  wake_state,       \* WakeWordListener thread: "idle" | "started" | "looping" | "finished"
  wake_running,     \* WakeWordListener.running
  worker_ui_writes  \* worker functions that have mutated a widget directly

assistantVars == <<assistant_window, win_api_key, win_username, transcript,
                   hud_status, hud_levels, status_label, mic_checked, mute_checked,
                   tasks_submitted, resp_threads, delivered, overlapped, ui_queue,
                   listen_starting, listen_capturing, wake_ignored,
                   speak_starting, speak_speaking, wake_state, wake_running,
                   worker_ui_writes>>

\* ---------------------------------------------------- setup window state
VARIABLES
  api_input,        \* text of the key field
  validate_enabled, \* validate_btn.isEnabled()
  validate_visible, \* validate_btn.isVisible()
  continue_visible, \* continue_btn.isVisible()
  setup_status,     \* kind of the status line: "" | "validating" | "success" | "error"
  config_file,      \* tiya_config.json: whether it exists, and its fields
  validation_threads, \* running APIValidationThread objects (their api_key)
  validations_started, \* APIValidationThread objects started so far
  validations_handled, \* runs of handle_validation_result so far
  emitted_keys,     \* arguments of the api_configured emissions, oldest first
  validated_keys    \* keys an APIValidationThread of this window reported valid

setupVars == <<api_input, validate_enabled, validate_visible, continue_visible,
               setup_status, config_file, validation_threads, validations_started,
               validations_handled, emitted_keys, validated_keys>>

vars == <<appVars, assistantVars, setupVars>>

winVars == <<assistant_window, win_api_key, win_username>>
taskVars == <<tasks_submitted, resp_threads, delivered, overlapped>>
listenVars == <<listen_starting, listen_capturing, wake_ignored>>
speakVars == <<speak_starting, speak_speaking>>
wakeVars == <<wake_state, wake_running>>

TaskIds == 1..MaxInputs

Msg(author, kind, task) == [author |-> author, kind |-> kind, task |-> task]
Ev(type, arg, task, flag) == [type |-> type, arg |-> arg, task |-> task, flag |-> flag]

\* str.strip() on the typed messages of the model
Strip(s) == IF s = " " THEN "" ELSE s

\* a completion request whose outcome the interactive context has not processed yet
Unresolved == {t \in TaskIds : t <= tasks_submitted /\ delivered[t] = 0}

Running == app_state = "running"

\* ------------------------------------------- assistant window: handlers
reset_to_monitoring ==
  /\ hud_status' = "STANDBY"
  /\ status_label' = IF mic_checked THEN "MONITORING FOR WAKE WORD" ELSE "QUANTUM CORE: ONLINE"

\* AudioProcessor.speak(text, callback = reset_to_monitoring)
speak ==
  IF ~AUDIO_AVAILABLE
    THEN reset_to_monitoring /\ UNCHANGED speak_starting
    ELSE speak_starting' = speak_starting + 1 /\ UNCHANGED <<hud_status, status_label>>

\* a bug that appends the bubble of the assistant as a user bubble
add_tiya_message_as_user_bubble(kind, task, speak_flag) ==
  /\ transcript' = Append(transcript, Msg("user", kind, task))
  /\ IF speak_flag /\ mute_checked /\ AUDIO_AVAILABLE
       THEN speak
       ELSE reset_to_monitoring /\ UNCHANGED speak_starting

\* a bug that speaks the answer whatever the state of the AUDIO button
add_tiya_message_ignores_audio_button(kind, task, speak_flag) ==
  /\ transcript' = Append(transcript, Msg("assistant", kind, task))
  /\ IF speak_flag /\ AUDIO_AVAILABLE
       THEN speak
       ELSE reset_to_monitoring /\ UNCHANGED speak_starting

\* a bug that files the bubble by the number of its request, not at the end
add_tiya_message_in_submission_order(kind, task, speak_flag) ==
  /\ transcript' = SelectSeq(transcript, LAMBDA m : m.task <= task)
                      \o <<Msg("assistant", kind, task)>>
                      \o SelectSeq(transcript, LAMBDA m : m.task > task)
  /\ IF speak_flag /\ mute_checked /\ AUDIO_AVAILABLE
       THEN speak
       ELSE reset_to_monitoring /\ UNCHANGED speak_starting

add_tiya_message(kind, task, speak_flag) ==
  /\ transcript' = Append(transcript, Msg("assistant", kind, task))
  /\ IF speak_flag /\ mute_checked /\ AUDIO_AVAILABLE
       THEN speak
       ELSE reset_to_monitoring /\ UNCHANGED speak_starting

\* a bug that inserts the bubble at the top of chat_layout
add_user_message_at_top(kind, task) ==
  transcript' = <<Msg("user", kind, task)>> \o transcript

add_user_message(kind, task) ==
  transcript' = Append(transcript, Msg("user", kind, task))

\* a bug that does not start the worker of the request
generate_response_without_worker ==
  /\ hud_status' = "PROCESSING"
  /\ status_label' = "PROCESSING QUANTUM RESPONSE..."
  /\ tasks_submitted' = tasks_submitted + 1
  /\ overlapped' = (overlapped \/ Unresolved # {})
  /\ UNCHANGED <<delivered, resp_threads>>

\* generate_response: no check for a request that is still running
generate_response ==
  /\ hud_status' = "PROCESSING"
  /\ status_label' = "PROCESSING QUANTUM RESPONSE..."
  /\ tasks_submitted' = tasks_submitted + 1
  /\ resp_threads' = resp_threads \cup {tasks_submitted + 1}
  /\ overlapped' = (overlapped \/ Unresolved # {})
  /\ UNCHANGED delivered

\* EnhancedTIYAAssistant.__init__: init_ui and setup_audio_and_wake_word; the
\* greeting is appended by add_tiya_message(..., speak=False) in create_right_panel
AssistantConstructed(key, name) ==
  /\ assistant_window' = "open"
  /\ win_api_key' = key
  /\ win_username' = name
  /\ transcript' = <<Msg("assistant", "greeting", 0)>>
  /\ hud_status' = "STANDBY"
  /\ hud_levels' = "zero"
  /\ status_label' = "QUANTUM CORE: ONLINE"
  /\ mic_checked' = FALSE
  /\ mute_checked' = TRUE
  /\ tasks_submitted' = 0
  /\ resp_threads' = {}
  /\ delivered' = [t \in TaskIds |-> 0]
  /\ overlapped' = FALSE
  /\ ui_queue' = <<>>
  /\ listen_starting' = 0 /\ listen_capturing' = 0 /\ wake_ignored' = 0
  /\ speak_starting' = 0 /\ speak_speaking' = 0
  /\ wake_state' = "idle" /\ wake_running' = FALSE
  /\ worker_ui_writes' = {}

send_message ==
  /\ Running /\ assistant_window = "open"
  /\ inputs < MaxInputs
  /\ inputs' = inputs + 1
  /\ \E text \in TypedMessages :
       /\ Strip(text) # ""
       /\ add_user_message("typed", tasks_submitted + 1)
       /\ generate_response
  /\ UNCHANGED <<appRest, setupVars, winVars, hud_levels, mic_checked, mute_checked,
                 ui_queue, listenVars, speakVars, wakeVars, worker_ui_writes>>

toggle_audio_output ==
  /\ Running /\ assistant_window = "open"
  /\ inputs < MaxInputs
  /\ inputs' = inputs + 1
  /\ mute_checked' = ~mute_checked
  /\ add_tiya_message("notice", 0, FALSE)
  /\ UNCHANGED <<appRest, setupVars, winVars, hud_levels, mic_checked, taskVars,
                 ui_queue, listenVars, speak_speaking, wakeVars, worker_ui_writes>>

\* WakeWordListener.stop: running = False; quit(); wait(2000)
wake_stop == wake_running' = FALSE /\ UNCHANGED wake_state

toggle_wake_word_listener ==
  /\ Running /\ assistant_window = "open"
  /\ inputs < MaxInputs
  /\ inputs' = inputs + 1
  /\ mic_checked' = ~mic_checked
  /\ IF ~mic_checked
       THEN /\ status_label' = "MONITORING FOR WAKE WORD"
            /\ wake_state' = IF wake_state \in {"idle", "finished"} THEN "started" ELSE wake_state
            /\ UNCHANGED <<wake_running, hud_status>>
       ELSE /\ status_label' = "QUANTUM CORE: ONLINE"
            /\ wake_stop
            /\ hud_status' = "STANDBY"
  /\ UNCHANGED <<appRest, setupVars, winVars, transcript, hud_levels, mute_checked,
                 taskVars, ui_queue, listenVars, speakVars, worker_ui_writes>>

closeEvent ==
  /\ Running /\ assistant_window = "open"
  /\ assistant_window' = "closed"
  /\ wake_stop
  /\ UNCHANGED <<appVars, setupVars, win_api_key, win_username, transcript, hud_status,
                 hud_levels, status_label, mic_checked, mute_checked, taskVars, ui_queue,
                 listenVars, speakVars, worker_ui_writes>>

\* ------------------------------------------- assistant window: workers
\* response_thread: one QTimer.singleShot(0, add_tiya_message) on either path
response_outcomes(gemini, key) ==
  IF gemini /\ key \notin {"", None} THEN {"reply", "error"} ELSE {"reply"}

\* a bug that posts the error message again after the except branch
response_posts_error_twice(t, kind) ==
  IF kind = "error"
    THEN <<Ev("add_tiya_message", kind, t, TRUE), Ev("add_tiya_message", kind, t, TRUE)>>
    ELSE <<Ev("add_tiya_message", kind, t, TRUE)>>

\* the callbacks response_thread posts for one outcome
response_posts(t, kind) == <<Ev("add_tiya_message", kind, t, TRUE)>>

response_thread ==
  /\ Running
  /\ \E t \in resp_threads :
       /\ resp_threads' = resp_threads \ {t}
       /\ \E kind \in response_outcomes(GEMINI_AVAILABLE, win_api_key) :
            ui_queue' = ui_queue \o response_posts(t, kind)
  /\ UNCHANGED <<appVars, setupVars, winVars, transcript, hud_status, hud_levels,
                 status_label, mic_checked, mute_checked, tasks_submitted, delivered,
                 overlapped, listenVars, speakVars, wakeVars, worker_ui_writes>>

\* listen_thread_fn up to the start of the capture.  simulate_listening is
\* started here; its loop reads hud.status from the worker and posts one
\* level update per iteration while the status is LISTENING (one iteration
\* is modelled, taken when the thread starts)
simulate_listening ==
  IF hud_status # "LISTENING" THEN <<>>
  ELSE <<Ev("set_audio_levels", "active", 0, FALSE)>>

listen_thread_start ==
  /\ Running /\ listen_starting > 0
  /\ listen_starting' = listen_starting - 1
  /\ listen_capturing' = listen_capturing + 1
  /\ ui_queue' = Append(ui_queue, Ev("set_status", "LISTENING", 0, FALSE))
                  \o simulate_listening
  /\ UNCHANGED <<appVars, setupVars, winVars, transcript, hud_status, hud_levels,
                 status_label, mic_checked, mute_checked, taskVars, wake_ignored,
                 speakVars, wakeVars, worker_ui_writes>>

\* the try / except / finally of listen_thread_fn
ListenOutcomes == {"recognized", "WaitTimeoutError", "UnknownValueError",
                   "RequestError", "OSError"}
NamedListenErrors == {"WaitTimeoutError", "UnknownValueError", "RequestError"}

listen_posts(outcome) ==
  (IF outcome = "recognized"
     THEN <<Ev("process_voice_input", "utterance", 0, FALSE)>>
     ELSE IF outcome \in NamedListenErrors
       THEN <<Ev("add_tiya_message", "voice_error", 0, TRUE),
              Ev("reset_to_monitoring", "", 0, FALSE)>>
       ELSE <<>>)
  \o <<Ev("set_audio_levels", "zero", 0, FALSE)>>

listen_thread_finish ==
  /\ Running /\ listen_capturing > 0
  /\ listen_capturing' = listen_capturing - 1
  /\ \E outcome \in ListenOutcomes : ui_queue' = ui_queue \o listen_posts(outcome)
  /\ UNCHANGED <<appVars, setupVars, winVars, transcript, hud_status, hud_levels,
                 status_label, mic_checked, mute_checked, taskVars, listen_starting,
                 wake_ignored,
                 speakVars, wakeVars, worker_ui_writes>>

\* speak_thread up to tts_engine.say: writes the HUD from the worker
speak_thread_begin ==
  /\ Running /\ speak_starting > 0
  /\ speak_starting' = speak_starting - 1
  /\ speak_speaking' = speak_speaking + 1
  /\ hud_status' = "SPEAKING"
  /\ hud_levels' = "active"
  /\ worker_ui_writes' = worker_ui_writes \cup {"speak_thread"}
  /\ UNCHANGED <<appVars, setupVars, winVars, transcript, status_label, mic_checked,
                 mute_checked, taskVars, ui_queue, listenVars, wakeVars>>

\* say / runAndWait and the rest of speak_thread; an exception of the engine
\* is not caught and ends the thread
speak_thread_end ==
  /\ Running /\ speak_speaking > 0
  /\ speak_speaking' = speak_speaking - 1
  /\ \E ok \in BOOLEAN :
       IF ok
         THEN /\ hud_levels' = "zero"
              /\ hud_status' = "STANDBY"
              /\ ui_queue' = Append(ui_queue, Ev("reset_to_monitoring", "", 0, FALSE))
         ELSE UNCHANGED <<hud_levels, hud_status, ui_queue>>
  /\ UNCHANGED <<appVars, setupVars, winVars, transcript, status_label, mic_checked,
                 mute_checked, taskVars, listenVars, speak_starting, wakeVars,
                 worker_ui_writes>>

\* WakeWordListener.run up to the loop
WakeWordListener_run ==
  /\ Running /\ wake_state = "started"
  /\ IF AUDIO_AVAILABLE
       THEN wake_state' = "looping" /\ wake_running' = TRUE
       ELSE wake_state' = "finished" /\ UNCHANGED wake_running
  /\ UNCHANGED <<appVars, setupVars, winVars, transcript, hud_status, hud_levels,
                 status_label, mic_checked, mute_checked, taskVars, ui_queue,
                 listenVars, speakVars, worker_ui_writes>>

\* the test of `while self.running`
WakeWordListener_check ==
  /\ Running /\ wake_state = "looping"
  /\ wake_state' = IF wake_running THEN "capturing" ELSE "finished"
  /\ UNCHANGED <<appVars, setupVars, winVars, transcript, hud_status, hud_levels,
                 status_label, mic_checked, mute_checked, taskVars, ui_queue,
                 listenVars, speakVars, wake_running, worker_ui_writes>>

\* one listen / recognize_google round of the loop body
WakeWordListener_listen ==
  /\ Running /\ wake_state = "capturing"
  /\ wake_state' = "looping"
  /\ \E heard \in BOOLEAN :
       IF heard /\ inputs < MaxInputs
         THEN /\ ui_queue' = Append(ui_queue, Ev("wakeWordDetected", "", 0, FALSE))
              /\ inputs' = inputs + 1
         ELSE UNCHANGED <<ui_queue, inputs>>
  /\ UNCHANGED <<appRest, setupVars, winVars, transcript, hud_status, hud_levels,
                 status_label, mic_checked, mute_checked, taskVars, listenVars,
                 speakVars, wake_running, worker_ui_writes>>

\* ---------------- assistant window: callbacks run by the interactive context
Posted(type) == Running /\ ui_queue # <<>> /\ Head(ui_queue).type = type

deliver_add_tiya_message ==
  /\ Posted("add_tiya_message")
  /\ LET ev == Head(ui_queue) IN
       /\ add_tiya_message(ev.arg, ev.task, ev.flag)
       /\ delivered' = IF ev.task > 0 THEN [delivered EXCEPT ![ev.task] = @ + 1]
                                      ELSE delivered
  /\ ui_queue' = Tail(ui_queue)
  /\ UNCHANGED <<appVars, setupVars, winVars, hud_levels, mic_checked, mute_checked,
                 tasks_submitted, resp_threads, overlapped, listenVars, speak_speaking,
                 wakeVars, worker_ui_writes>>

deliver_set_status ==
  /\ Posted("set_status")
  /\ hud_status' = Head(ui_queue).arg
  /\ ui_queue' = Tail(ui_queue)
  /\ UNCHANGED <<appVars, setupVars, winVars, transcript, hud_levels, status_label,
                 mic_checked, mute_checked, taskVars, listenVars, speakVars, wakeVars,
                 worker_ui_writes>>

deliver_set_audio_levels ==
  /\ Posted("set_audio_levels")
  /\ hud_levels' = Head(ui_queue).arg
  /\ ui_queue' = Tail(ui_queue)
  /\ UNCHANGED <<appVars, setupVars, winVars, transcript, hud_status, status_label,
                 mic_checked, mute_checked, taskVars, listenVars, speakVars, wakeVars,
                 worker_ui_writes>>

deliver_reset_to_monitoring ==
  /\ Posted("reset_to_monitoring")
  /\ reset_to_monitoring
  /\ ui_queue' = Tail(ui_queue)
  /\ UNCHANGED <<appVars, setupVars, winVars, transcript, hud_levels, mic_checked,
                 mute_checked, taskVars, listenVars, speakVars, wakeVars,
                 worker_ui_writes>>

\* process_voice_input: add_user_message then generate_response
process_voice_input ==
  /\ Posted("process_voice_input")
  /\ add_user_message("voice", tasks_submitted + 1)
  /\ generate_response
  /\ ui_queue' = Tail(ui_queue)
  /\ UNCHANGED <<appVars, setupVars, winVars, hud_levels, mic_checked, mute_checked,
                 listenVars, speakVars, wakeVars, worker_ui_writes>>

\* handle_wake_word and listen_for_command
\* a bug that answers the wake word whatever the state of the MIC button
handle_wake_word_ignores_mic_button ==
  /\ Posted("wakeWordDetected")
  /\ ui_queue' = Tail(ui_queue)
  /\ IF FALSE
       THEN wake_ignored' = wake_ignored + 1 /\ UNCHANGED <<status_label, listen_starting>>
       ELSE /\ status_label' = "WAKE WORD DETECTED. LISTENING..."
            /\ UNCHANGED wake_ignored
            /\ listen_starting' = IF AUDIO_AVAILABLE THEN listen_starting + 1
                                                     ELSE listen_starting
  /\ UNCHANGED <<appVars, setupVars, winVars, transcript, hud_status, hud_levels,
                 mic_checked, mute_checked, taskVars, listen_capturing,
                 speakVars, wakeVars, worker_ui_writes>>

handle_wake_word ==
  /\ Posted("wakeWordDetected")
  /\ ui_queue' = Tail(ui_queue)
  /\ IF ~mic_checked
       THEN wake_ignored' = wake_ignored + 1 /\ UNCHANGED <<status_label, listen_starting>>
       ELSE /\ status_label' = "WAKE WORD DETECTED. LISTENING..."
            /\ UNCHANGED wake_ignored
            /\ listen_starting' = IF AUDIO_AVAILABLE THEN listen_starting + 1
                                                     ELSE listen_starting
  /\ UNCHANGED <<appVars, setupVars, winVars, transcript, hud_status, hud_levels,
                 mic_checked, mute_checked, taskVars, listen_capturing,
                 speakVars, wakeVars, worker_ui_writes>>

\* ------------------------------------------------- firebase_manager.py
HashedUsers == {hash_username(u) : u \in AllowedUsers}

\* get_user_api_key: the (key, message) pair it returns
get_user_api_key(username, raises) ==
  IF ~fb_initialized THEN <<None, "Firebase not initialized">>
  ELSE IF raises THEN <<None, "Error retrieving API key">>
  ELSE IF fb_docs[hash_username(username)] = None THEN <<None, "User not found">>
  ELSE <<fb_docs[hash_username(username)], "API key retrieved successfully">>

\* a call of the document store that goes to the network
fb_round_trip(name) == IF fb_initialized THEN {name} ELSE {}

\* ------------------------------------------------------- main_app.py flow
TimerAdd(tm, k) == [tm EXCEPT ![k] = @ + 1]
TimerDel(tm, k) == [tm EXCEPT ![k] = @ - 1]
Due(k) == Running /\ timers[k] > 0

\* the user edits the two fields of the login window
edit_credentials ==
  /\ Running /\ login_window = "shown" /\ modal = <<>>
  /\ \E u \in TypedUsers, p \in TypedSecrets :
       username_field' = u /\ password_field' = p
  /\ UNCHANGED <<lookup_message, store_result, errVars, inputs, entry, app_state, AUDIO_AVAILABLE,
                 GEMINI_AVAILABLE, fb_initialized,
                 fb_docs, current_user, api_key, login_window, login_status,
                 timers, modal, api_setup_window, ui_blocking, assistants_created,
                 assistantVars, setupVars>>

\* TIYALogin.handle_login: the login button
TIYALogin_handle_login ==
  /\ Running /\ login_window = "shown" /\ modal = <<>>
  /\ inputs < MaxInputs
  /\ inputs' = inputs + 1
  /\ login_status' = "statusVerifying"
  /\ timers' = TimerAdd(timers, "process_login")
  /\ UNCHANGED <<lookup_message, store_result, errVars, entry, app_state, AUDIO_AVAILABLE, GEMINI_AVAILABLE,
                 fb_initialized,
                 fb_docs, current_user, api_key, login_window, username_field,
                 password_field, modal, api_setup_window, ui_blocking,
                 assistants_created, assistantVars, setupVars>>

\* TIYAApplication.handle_login, up to the message box of the denial branch
handle_login(username, password, tm) ==
  IF credentials_match(username, password)
    THEN /\ current_user' = username
         /\ login_status' = "statusGranted"
         /\ ui_blocking' = ui_blocking \cup fb_round_trip("update_user_last_login")
         /\ timers' = TimerAdd(tm, "check_user_api_key")
         /\ UNCHANGED modal
    ELSE /\ login_status' = "statusDenied"
         /\ modal' = <<"Access Denied">> \o modal
         /\ timers' = tm
         /\ UNCHANGED <<current_user, ui_blocking>>

\* the delayed lambda of TIYALogin.handle_login: process_login is handle_login
process_login ==
  /\ Due("process_login")
  /\ handle_login(Lower(username_field), password_field, TimerDel(timers, "process_login"))
  /\ UNCHANGED <<lookup_message, store_result, errVars, entry, app_state, AUDIO_AVAILABLE, GEMINI_AVAILABLE,
                 fb_initialized,
                 fb_docs, api_key, login_window, username_field, password_field,
                 inputs, api_setup_window, assistants_created,
                 assistantVars, setupVars>>

\* check_user_api_key, up to its message box
check_user_api_key ==
  /\ Due("check_user_api_key")
  /\ timers' = TimerDel(timers, "check_user_api_key")
  /\ ui_blocking' = ui_blocking \cup fb_round_trip("get_user_api_key")
  /\ \E raises \in BOOLEAN :
       LET result == get_user_api_key(current_user, raises) IN
         /\ lookup_message' = result[2]
         /\ IF result[1] \notin {None, ""}
              THEN api_key' = result[1] /\ modal' = <<"Welcome Back">> \o modal
              ELSE UNCHANGED api_key /\ modal' = <<"Neural Key Required">> \o modal
  /\ UNCHANGED <<entry, app_state, AUDIO_AVAILABLE, GEMINI_AVAILABLE, fb_initialized,
                 fb_docs, current_user, login_window, login_status, username_field,
                 password_field, inputs, api_setup_window, assistants_created,
                 store_result, errVars, assistantVars, setupVars>>

\* a bug that opens the assistant after the box of the denial
after_message_box_opens_assistant_on_denial(box) ==
  CASE box = "Access Denied" -> "show_main_assistant"
    [] box = "Welcome Back" -> "show_main_assistant"
    [] box = "Neural Key Required" -> "show_api_setup"

\* the statement after show_message_box in the handler that opened the box
after_message_box(box) ==
  CASE box = "Access Denied" -> "reset_status"
    [] box = "Welcome Back" -> "show_main_assistant"
    [] box = "Neural Key Required" -> "show_api_setup"

\* the user presses OK in the innermost message box; its handler resumes
dismiss_message_box ==
  /\ Running /\ modal # <<>>
  /\ modal' = Tail(modal)
  /\ timers' = TimerAdd(timers, after_message_box(Head(modal)))
  /\ UNCHANGED <<lookup_message, store_result, errVars, entry, app_state, AUDIO_AVAILABLE, GEMINI_AVAILABLE,
                 fb_initialized,
                 fb_docs, current_user, api_key, login_window, login_status,
                 username_field, password_field, inputs, api_setup_window,
                 ui_blocking, assistants_created, assistantVars, setupVars>>

\* show_api_setup: main_app.py never imports APISetupWindow, the constructor
\* call raises NameError after the login window was closed.  The exception
\* leaves a Qt callback: the binding aborts the process or only reports it.
show_api_setup ==
  /\ Due("show_api_setup")
  /\ timers' = TimerDel(timers, "show_api_setup")
  /\ login_window' = "closed"
  /\ \E aborts \in BOOLEAN : app_state' = IF aborts THEN "aborted" ELSE app_state
  /\ UNCHANGED <<lookup_message, store_result, errVars, entry, AUDIO_AVAILABLE, GEMINI_AVAILABLE, fb_initialized, fb_docs,
                 current_user, api_key, login_status, username_field, password_field,
                 inputs, modal, api_setup_window, ui_blocking,
                 assistants_created, assistantVars, setupVars>>

show_main_assistant ==
  /\ Due("show_main_assistant")
  /\ timers' = TimerDel(timers, "show_main_assistant")
  /\ api_setup_window' = IF api_setup_window = "none" THEN "none" ELSE "closed"
  /\ login_window' = IF login_window = "none" THEN "none" ELSE "closed"
  /\ AssistantConstructed(api_key, Title(current_user))
  /\ assistants_created' = assistants_created + 1
  /\ UNCHANGED <<lookup_message, store_result, errVars, entry, app_state, AUDIO_AVAILABLE, GEMINI_AVAILABLE,
                 fb_initialized,
                 fb_docs, current_user, api_key, login_status, username_field,
                 password_field, inputs, modal, ui_blocking, setupVars>>

\* TIYALogin.reset_status
reset_status ==
  /\ Due("reset_status")
  /\ timers' = TimerDel(timers, "reset_status")
  /\ login_status' = "statusOnline"
  /\ username_field' = "" /\ password_field' = ""
  /\ UNCHANGED <<lookup_message, store_result, errVars, entry, app_state, AUDIO_AVAILABLE, GEMINI_AVAILABLE,
                 fb_initialized,
                 fb_docs, current_user, api_key, login_window, inputs, modal,
                 api_setup_window, ui_blocking, assistants_created, assistantVars,
                 setupVars>>

\* ------------------------------------------------------- api_setup.py
LongKey == "AIzaSy-0123456789-abcdefgh"
OtherLongKey == "AIzaSy-9876543210-hgfedcba"
TypedKeys == {"", " ", "short-key", LongKey, OtherLongKey}

\* len() of the keys of the model
KeyLen(k) ==
  CASE k = "" -> 0
    [] k = " " -> 1
    [] k = "short-key" -> 9
    [] OTHER -> 26

\* the texts an exception of the generative client can carry, each given by
\* the substrings the classification looks for
ErrorTexts == {{"api_key"}, {"quota"}, {"limit"}, {"permission"}, {"invalid", "quota"}, {}}

\* the except branch of APIValidationThread.run
classify_error(error_msg) ==
  IF "api_key" \in error_msg \/ "invalid" \in error_msg THEN "Invalid API key"
  ELSE IF "quota" \in error_msg \/ "limit" \in error_msg THEN "API quota exceeded"
  ELSE IF "permission" \in error_msg THEN "API permission denied"
  ELSE "Validation error"

\* the (is_valid, message) pairs one run of APIValidationThread can emit
validation_outcomes(gemini, key) ==
  IF gemini /\ key # ""
    THEN {<<TRUE, "API key validated successfully">>,
          <<FALSE, "Invalid response from API">>}
         \cup {<<FALSE, classify_error(e)>> : e \in ErrorTexts}
    ELSE IF KeyLen(key) > 20
      THEN {<<TRUE, "API key format appears valid (simulation mode)">>}
      ELSE {<<FALSE, "API key format appears invalid">>}

SetupShown == Running /\ api_setup_window = "shown"

\* the user edits the key field
edit_api_input ==
  /\ SetupShown
  /\ inputs < MaxInputs
  /\ inputs' = inputs + 1
  /\ \E k \in TypedKeys : api_input' = k
  /\ UNCHANGED <<appRest, assistantVars, validate_enabled, validate_visible,
                 continue_visible, setup_status, config_file, validation_threads,
                 validations_started, validations_handled, emitted_keys,
                 validated_keys>>

\* a bug that leaves the validate button enabled while the thread runs
validate_and_save_api_keeps_button_enabled ==
  /\ SetupShown
  /\ validate_enabled /\ validate_visible
  /\ inputs < MaxInputs
  /\ inputs' = inputs + 1
  /\ IF Strip(api_input) = ""
       THEN /\ setup_status' = "error"
            /\ UNCHANGED <<validation_threads, validations_started>>
       ELSE /\ setup_status' = "validating"
            /\ validation_threads' = Append(validation_threads, Strip(api_input))
            /\ validations_started' = validations_started + 1
  /\ UNCHANGED <<appRest, assistantVars, api_input, validate_enabled, validate_visible,
                 continue_visible, config_file, validations_handled, emitted_keys, validated_keys>>

validate_and_save_api ==
  /\ SetupShown
  /\ validate_enabled /\ validate_visible
  /\ inputs < MaxInputs
  /\ inputs' = inputs + 1
  /\ IF Strip(api_input) = ""
       THEN /\ setup_status' = "error"
            /\ UNCHANGED <<validate_enabled, validation_threads, validations_started>>
       ELSE /\ setup_status' = "validating"
            /\ validate_enabled' = FALSE
            /\ validation_threads' = Append(validation_threads, Strip(api_input))
            /\ validations_started' = validations_started + 1
  /\ UNCHANGED <<appRest, assistantVars, api_input, validate_visible, continue_visible,
                 config_file, validations_handled, emitted_keys, validated_keys>>

\* APIValidationThread.run: every path emits validation_complete once
APIValidationThread_run ==
  /\ Running
  /\ \E i \in 1..Len(validation_threads) :
       /\ validation_threads' = SubSeq(validation_threads, 1, i - 1)
                                \o SubSeq(validation_threads, i + 1, Len(validation_threads))
       /\ \E out \in validation_outcomes(GEMINI_AVAILABLE, validation_threads[i]) :
            /\ ui_queue' = Append(ui_queue, Ev("validation_complete", out[2], 0, out[1]))
            /\ validated_keys' = IF out[1] THEN validated_keys \cup {validation_threads[i]}
                                           ELSE validated_keys
  /\ UNCHANGED <<appVars, winVars, transcript, hud_status, hud_levels, status_label,
                 mic_checked, mute_checked, taskVars, listenVars, speakVars, wakeVars,
                 worker_ui_writes, api_input, validate_enabled,
                 validate_visible, continue_visible, setup_status, config_file,
                 validations_started, validations_handled, emitted_keys>>

\* handle_validation_result, the slot of validation_complete
\* a bug that writes the config file for a key the validation rejected
handle_validation_result_saves_rejected_key ==
  /\ Posted("validation_complete")
  /\ ui_queue' = Tail(ui_queue)
  /\ validations_handled' = validations_handled + 1
  /\ validate_enabled' = TRUE
  /\ IF Head(ui_queue).flag
       THEN /\ ui_blocking' = ui_blocking \cup {"write tiya_config.json"}
            /\ \E written \in BOOLEAN :
                 IF written
                   THEN /\ config_file' = [exists |-> TRUE,
                                           gemini_api_key |-> Strip(api_input),
                                           configured |-> TRUE,
                                           validation_message |-> Head(ui_queue).arg]
                        /\ setup_status' = "success"
                        /\ validate_visible' = FALSE
                        /\ continue_visible' = TRUE
                   ELSE /\ setup_status' = "error"
                        /\ UNCHANGED <<config_file, validate_visible, continue_visible>>
       ELSE /\ setup_status' = "error"
            /\ config_file' = [exists |-> TRUE,
                                gemini_api_key |-> Strip(api_input),
                                configured |-> FALSE,
                                validation_message |-> Head(ui_queue).arg]
            /\ UNCHANGED <<ui_blocking, validate_visible, continue_visible>>
  /\ UNCHANGED <<lookup_message, store_result, errVars, entry, app_state, AUDIO_AVAILABLE, GEMINI_AVAILABLE,
                 fb_initialized,
                 fb_docs, current_user, api_key, login_window, login_status,
                 username_field, password_field, inputs, timers, modal,
                 api_setup_window, assistants_created,
                 winVars, transcript, hud_status, hud_levels, status_label,
                 mic_checked, mute_checked, taskVars, listenVars, speakVars, wakeVars,
                 worker_ui_writes, api_input, validation_threads,
                 validations_started, emitted_keys, validated_keys>>

handle_validation_result ==
  /\ Posted("validation_complete")
  /\ ui_queue' = Tail(ui_queue)
  /\ validations_handled' = validations_handled + 1
  /\ validate_enabled' = TRUE
  /\ IF Head(ui_queue).flag
       THEN /\ ui_blocking' = ui_blocking \cup {"write tiya_config.json"}
            /\ \E written \in BOOLEAN :
                 IF written
                   THEN /\ config_file' = [exists |-> TRUE,
                                           gemini_api_key |-> Strip(api_input),
                                           configured |-> TRUE,
                                           validation_message |-> Head(ui_queue).arg]
                        /\ setup_status' = "success"
                        /\ validate_visible' = FALSE
                        /\ continue_visible' = TRUE
                   ELSE /\ setup_status' = "error"
                        /\ UNCHANGED <<config_file, validate_visible, continue_visible>>
       ELSE /\ setup_status' = "error"
            /\ UNCHANGED <<ui_blocking, config_file, validate_visible, continue_visible>>
  /\ UNCHANGED <<lookup_message, store_result, errVars, entry, app_state, AUDIO_AVAILABLE, GEMINI_AVAILABLE,
                 fb_initialized,
                 fb_docs, current_user, api_key, login_window, login_status,
                 username_field, password_field, inputs, timers, modal,
                 api_setup_window, assistants_created,
                 winVars, transcript, hud_status, hud_levels, status_label,
                 mic_checked, mute_checked, taskVars, listenVars, speakVars, wakeVars,
                 worker_ui_writes, api_input, validation_threads,
                 validations_started, emitted_keys, validated_keys>>

\* load_api_key: the key of the config file, '' when there is none
load_api_key == IF ~config_file.exists THEN "" ELSE config_file.gemini_api_key

\* continue_to_main: emit api_configured and close the window
continue_to_main ==
  /\ SetupShown
  /\ continue_visible
  /\ ui_blocking' = ui_blocking \cup {"read tiya_config.json"}
  /\ emitted_keys' = Append(emitted_keys, load_api_key)
  /\ api_setup_window' = "closed"
  /\ UNCHANGED <<lookup_message, store_result, errVars, entry, app_state, AUDIO_AVAILABLE, GEMINI_AVAILABLE,
                 fb_initialized,
                 fb_docs, current_user, api_key, login_window, login_status,
                 username_field, password_field, inputs, timers, modal,
                 assistants_created, assistantVars, api_input, validate_enabled,
                 validate_visible, continue_visible, setup_status, config_file,
                 validation_threads, validations_started, validations_handled,
                 validated_keys>>

\* ------------------------------------------------------------ initial state
\* the generative client has raised nothing, no except branch has run
NoError == [raised |-> FALSE, text |-> {}]
NoLabel == [path |-> "none", label |-> ""]

\* store_user_api_key has not been called
NoStore == [user |-> None, key |-> None, success |-> FALSE]

NoConfig == [exists |-> FALSE, gemini_api_key |-> "", configured |-> FALSE,
             validation_message |-> ""]
ExistingConfig == [exists |-> TRUE, gemini_api_key |-> LongKey, configured |-> TRUE,
                   validation_message |-> "API key validated successfully"]

\* no assistant window has been constructed
AssistantAbsent ==
  /\ assistant_window = "none"
  /\ win_api_key = None /\ win_username = None
  /\ transcript = <<>>
  /\ hud_status = "STANDBY" /\ hud_levels = "zero"
  /\ status_label = "" /\ mic_checked = FALSE /\ mute_checked = TRUE
  /\ tasks_submitted = 0 /\ resp_threads = {}
  /\ delivered = [t \in TaskIds |-> 0] /\ overlapped = FALSE
  /\ listen_starting = 0 /\ listen_capturing = 0 /\ wake_ignored = 0
  /\ speak_starting = 0 /\ speak_speaking = 0
  /\ wake_state = "idle" /\ wake_running = FALSE
  /\ worker_ui_writes = {}

\* the assistant window of `python main_assistant.py`: api_key="", "Quantum User"
AssistantStandalone ==
  /\ assistant_window = "open"
  /\ win_api_key = "" /\ win_username = "Quantum User"
  /\ transcript = <<Msg("assistant", "greeting", 0)>>
  /\ hud_status = "STANDBY" /\ hud_levels = "zero"
  /\ status_label = "QUANTUM CORE: ONLINE" /\ mic_checked = FALSE /\ mute_checked = TRUE
  /\ tasks_submitted = 0 /\ resp_threads = {}
  /\ delivered = [t \in TaskIds |-> 0] /\ overlapped = FALSE
  /\ listen_starting = 0 /\ listen_capturing = 0 /\ wake_ignored = 0
  /\ speak_starting = 0 /\ speak_speaking = 0
  /\ wake_state = "idle" /\ wake_running = FALSE
  /\ worker_ui_writes = {}

\* no setup window has been constructed
SetupAbsent ==
  /\ api_setup_window = "none"
  /\ api_input = "" /\ validate_enabled = TRUE /\ validate_visible = TRUE
  /\ continue_visible = FALSE /\ setup_status = ""
  /\ config_file = NoConfig

\* APISetupWindow.__init__ with load_existing_config
SetupStandalone ==
  /\ api_setup_window = "shown"
  /\ validate_enabled = TRUE /\ validate_visible = TRUE
  /\ config_file \in {NoConfig, ExistingConfig}
  /\ IF config_file.exists /\ config_file.configured /\ config_file.gemini_api_key # ""
       THEN api_input = config_file.gemini_api_key /\ setup_status = "success"
            /\ continue_visible = TRUE
       ELSE api_input = "" /\ setup_status = "" /\ continue_visible = FALSE

Init ==
  /\ entry \in Entries
  /\ app_state = "running"
  /\ GEMINI_AVAILABLE \in (IF entry = "main_assistant" THEN {TRUE} ELSE BOOLEAN)
  /\ AUDIO_AVAILABLE \in (IF entry = "api_setup" THEN {FALSE} ELSE BOOLEAN)
  /\ fb_initialized \in (IF entry = "main_app" THEN BOOLEAN ELSE {FALSE})
  /\ fb_docs \in {[h \in HashedUsers |->
                     IF h = hash_username("operator") THEN k ELSE None] :
                  k \in (IF fb_initialized THEN {None, StoredKey} ELSE {None})}
  /\ current_user = None /\ api_key = None
  /\ login_window = (IF entry = "main_app" THEN "shown" ELSE "none")
  /\ login_status = "statusOnline"
  /\ username_field = "" /\ password_field = ""
  /\ inputs = 0
  /\ timers = [k \in TimerKinds |-> 0]
  /\ modal = <<>>
  /\ lookup_message = ""
  /\ ui_blocking = {}
  /\ assistants_created = 0
  /\ store_result = NoStore
  /\ raised_error = NoError /\ error_label = NoLabel
  /\ ui_queue = <<>>
  /\ IF entry = "main_assistant" THEN AssistantStandalone ELSE AssistantAbsent
  /\ IF entry = "api_setup" THEN SetupStandalone ELSE SetupAbsent
  /\ validation_threads = <<>>
  /\ validations_started = 0 /\ validations_handled = 0
  /\ emitted_keys = <<>>
  /\ validated_keys = {}

Next ==
  \/ edit_credentials
  \/ TIYALogin_handle_login
  \/ process_login
  \/ check_user_api_key
  \/ dismiss_message_box
  \/ show_api_setup
  \/ show_main_assistant
  \/ reset_status
  \/ send_message
  \/ toggle_audio_output
  \/ toggle_wake_word_listener
  \/ closeEvent
  \/ response_thread
  \/ listen_thread_start
  \/ listen_thread_finish
  \/ speak_thread_begin
  \/ speak_thread_end
  \/ WakeWordListener_run
  \/ WakeWordListener_check
  \/ WakeWordListener_listen
  \/ deliver_add_tiya_message
  \/ deliver_set_status
  \/ deliver_set_audio_levels
  \/ deliver_reset_to_monitoring
  \/ process_voice_input
  \/ handle_wake_word
  \/ edit_api_input
  \/ validate_and_save_api
  \/ APIValidationThread_run
  \/ handle_validation_result
  \/ continue_to_main

Spec == Init /\ [][Next]_vars

\* --------------------------------------- credential hand-over to main_app.py
\* handle_api_configured is the slot show_api_setup connects to the
\* api_configured signal of the setup window (main_app.py line 115); the
\* NameError of line 114 is raised before the connection is made.
\* CredentialSpec applies the slot, as a signal emission would, to the
\* application object show_api_setup leaves behind, and starts the
\* application again to reload the key the slot has stored.

\* a bug that keeps the api_key field of an existing document (merge misread)
store_user_api_key_keeps_existing_key(username, key, raises) ==
  IF ~fb_initialized THEN <<FALSE, "Firebase not initialized", fb_docs>>
  ELSE IF raises THEN <<FALSE, "Error storing API key", fb_docs>>
  ELSE <<TRUE, "API key stored successfully",
         [fb_docs EXCEPT ![hash_username(username)] = IF @ = None THEN key ELSE @]>>

\* store_user_api_key: (success, message) and the users collection afterwards
store_user_api_key(username, key, raises) ==
  IF ~fb_initialized THEN <<FALSE, "Firebase not initialized", fb_docs>>
  ELSE IF raises THEN <<FALSE, "Error storing API key", fb_docs>>
  ELSE <<TRUE, "API key stored successfully",
         [fb_docs EXCEPT ![hash_username(username)] = key]>>

\* the keys load_api_key can hand to api_configured.emit
EmittableKeys == {Strip(k) : k \in TypedKeys}

\* handle_api_configured(api_key), with the call of show_main_assistant at its end
handle_api_configured ==
  /\ Running /\ entry = "main_app"
  /\ current_user # None /\ login_window = "closed" /\ assistant_window = "none"
  /\ inputs < MaxInputs
  /\ inputs' = inputs + 1
  /\ \E key \in EmittableKeys, raises \in BOOLEAN :
       /\ api_key' = key
       /\ IF key # ""
            THEN LET result == store_user_api_key(current_user, key, raises) IN
                   /\ fb_docs' = result[3]
                   /\ store_result' = [user |-> current_user, key |-> key,
                                       success |-> result[1]]
                   /\ ui_blocking' = ui_blocking \cup fb_round_trip("store_user_api_key")
            ELSE UNCHANGED <<fb_docs, store_result, ui_blocking>>
       /\ AssistantConstructed(key, Title(current_user))
  /\ api_setup_window' = IF api_setup_window = "none" THEN "none" ELSE "closed"
  /\ assistants_created' = assistants_created + 1
  /\ UNCHANGED <<lookup_message, entry, app_state, AUDIO_AVAILABLE, GEMINI_AVAILABLE,
                 fb_initialized, current_user, login_window, login_status,
                 username_field, password_field, timers, modal, errVars, setupVars>>

\* the process has ended or sits in the assistant window, and main_app.py is
\* started again: TIYAApplication.__init__ and show_login on a fresh process;
\* the users collection is what the earlier process left
start_application ==
  /\ entry = "main_app"
  /\ app_state = "aborted" \/ assistant_window # "none"
  /\ \A k \in TimerKinds : timers[k] = 0
  /\ modal = <<>>
  /\ app_state' = "running"
  /\ current_user' = None /\ api_key' = None
  /\ login_window' = "shown" /\ login_status' = "statusOnline"
  /\ username_field' = "" /\ password_field' = ""
  /\ lookup_message' = ""
  /\ ui_blocking' = {}
  /\ assistants_created' = 0
  /\ assistant_window' = "none"
  /\ win_api_key' = None /\ win_username' = None
  /\ transcript' = <<>>
  /\ hud_status' = "STANDBY" /\ hud_levels' = "zero"
  /\ status_label' = "" /\ mic_checked' = FALSE /\ mute_checked' = TRUE
  /\ tasks_submitted' = 0 /\ resp_threads' = {}
  /\ delivered' = [t \in TaskIds |-> 0] /\ overlapped' = FALSE
  /\ ui_queue' = <<>>
  /\ listen_starting' = 0 /\ listen_capturing' = 0 /\ wake_ignored' = 0
  /\ speak_starting' = 0 /\ speak_speaking' = 0
  /\ wake_state' = "idle" /\ wake_running' = FALSE
  /\ worker_ui_writes' = {}
  /\ UNCHANGED <<entry, AUDIO_AVAILABLE, GEMINI_AVAILABLE, fb_initialized, fb_docs,
                 inputs, timers, modal, api_setup_window, store_result, errVars,
                 setupVars>>

CredentialInit == Init /\ entry = "main_app"

CredentialNext ==
  \/ edit_credentials
  \/ TIYALogin_handle_login
  \/ process_login
  \/ check_user_api_key
  \/ dismiss_message_box
  \/ show_api_setup
  \/ show_main_assistant
  \/ reset_status
  \/ handle_api_configured
  \/ start_application

CredentialSpec == CredentialInit /\ [][CredentialNext]_vars

\* ================================================================ claims
\* callbacks of completion request t waiting in the queue of the interactive context
QueuedFor(t) ==
  Cardinality({i \in 1..Len(ui_queue) :
                 ui_queue[i].type = "add_tiya_message" /\ ui_queue[i].task = t})

QueuedValidations ==
  Cardinality({i \in 1..Len(ui_queue) : ui_queue[i].type = "validation_complete"})

\* no worker of the assistant window is running and nothing is posted
AssistantIdle ==
  /\ resp_threads = {} /\ ui_queue = <<>>
  /\ listen_starting = 0 /\ listen_capturing = 0
  /\ speak_starting = 0 /\ speak_speaking = 0

\* the login flow has nothing left to run
FlowEnded == (\A k \in TimerKinds : timers[k] = 0) /\ modal = <<>>

\* every completion request was submitted after the previous one resolved,
\* and all of them have resolved
Sequential == ~overlapped /\ Unresolved = {}

ExchangeKinds == {"typed", "voice", "reply", "error"}
IsExchange(m) == m.kind \in ExchangeKinds
Exchange == SelectSeq(transcript, IsExchange)

\* seq is user 1, assistant 1, ..., user n, assistant n
Alternating(seq, n) ==
  /\ Len(seq) = 2 * n
  /\ \A k \in 1..n :
       /\ seq[2 * k - 1].author = "user" /\ seq[2 * k - 1].task = k
       /\ seq[2 * k].author = "assistant" /\ seq[2 * k].task = k

\* C1: at most one completion request is outstanding in the assistant window
\* at any time (a second submission is rejected while one is pending).
C1_AtMostOneCompletionOutstanding == Cardinality(Unresolved) <= 1

\* C2: once a window is closed, the completion of a Task that was in flight
\* changes nothing: no transcript, HUD, status or button change in the closed
\* assistant window, no config write or button change in the closed setup window.
C2_CompletionAfterCloseHasNoEffect ==
  [][/\ (assistant_window = "closed" /\ assistant_window' = "closed")
          => UNCHANGED <<transcript, hud_status, hud_levels, status_label>>
     /\ (api_setup_window = "closed" /\ api_setup_window' = "closed")
          => UNCHANGED <<config_file, validate_enabled, validate_visible,
                         continue_visible, setup_status>>]_vars

\* C3: every submitted Task is delivered exactly once: a completion request
\* is either still running, or posted once, or processed once, never more and
\* never lost; likewise every started validation thread.
C3_ExactlyOneDelivery ==
  /\ \A t \in TaskIds :
       IF t <= tasks_submitted
         THEN (IF t \in resp_threads THEN 1 ELSE 0) + QueuedFor(t) + delivered[t] = 1
         ELSE QueuedFor(t) = 0 /\ delivered[t] = 0
  /\ validations_started
       = Len(validation_threads) + QueuedValidations + validations_handled

C3_Witness ==
  \E t \in TaskIds :
    /\ delivered[t] = 1
    /\ \E i \in 1..Len(transcript) : transcript[i] = Msg("assistant", "error", t)

\* C4 as stated: after N completion requests submitted one after the other,
\* the transcript is exactly the 2N messages user 1, assistant 1, ...
C4_TranscriptIsExactly2N ==
  (assistant_window # "none" /\ Sequential) => Alternating(transcript, tasks_submitted)

\* C4 amended: after N completion requests submitted one after the other, the
\* transcript starts with the greeting of the constructor and, leaving out the
\* greeting, the notices of toggle_audio_output and the voice-capture error
\* messages, is exactly the 2N messages user 1, assistant 1, ..., in order.
C4_ExchangesAre2NAfterGreeting ==
  (assistant_window # "none" /\ Sequential)
    => /\ transcript # <<>>
       /\ transcript[1] = Msg("assistant", "greeting", 0)
       /\ Alternating(Exchange, tasks_submitted)

C4_Witness ==
  /\ assistant_window # "none" /\ Sequential
  /\ tasks_submitted = 2
  /\ \E i \in 1..Len(transcript) : transcript[i].kind = "notice"

\* C5: no worker thread mutates a widget directly; every UI change made for a
\* Task is made by the interactive context.
C5_NoWorkerMutatesUI == worker_ui_writes = {}

\* C6: the interactive context never executes a blocking external call
\* (document store round trip, file access) itself.
C6_InteractiveContextNeverBlocks == ui_blocking = {}

\* C7: when no Task is outstanding the HUD is back at STANDBY, and when no
\* validation is outstanding the validate button is enabled.
C7_StatusReturnsToIdle ==
  /\ (assistant_window # "none" /\ AssistantIdle) => hud_status = "STANDBY"
  /\ (validation_threads = <<>> /\ QueuedValidations = 0) => validate_enabled

\* C8: a login of operator / quantum ends in Ready: once the flow has nothing
\* left to run the assistant window exists for that user, with the stored key
\* as its api_key when the lookup found one.
C8_OperatorReachesReady ==
  (entry = "main_app" /\ current_user = "operator" /\ FlowEnded)
    => /\ app_state = "running"
       /\ assistant_window # "none"
       /\ win_username = "Operator"
       /\ (lookup_message = "API key retrieved successfully" => win_api_key = StoredKey)

\* C9: a login submission of operator with a secret other than quantum is
\* denied with a message and changes neither current_user nor api_key,
\* schedules no credential check and creates no window.
C9_DeniedLoginLeavesSessionUntouched ==
  [][(process_login /\ Lower(username_field) = "operator" /\ password_field # "quantum")
       => /\ login_status' = "statusDenied"
          /\ modal' # <<>> /\ Head(modal') = "Access Denied"
          /\ UNCHANGED <<current_user, api_key, login_window, api_setup_window,
                         assistant_window, assistants_created, transcript>>
          /\ \A k \in TimerKinds \ {"process_login"} : timers'[k] = timers[k]]_vars

C9_Witness ==
  /\ login_status = "statusDenied"
  /\ Lower(username_field) = "operator" /\ password_field = "bad"
  /\ modal # <<>> /\ Head(modal) = "Access Denied"
  /\ current_user = None

\* C10: when the key lookup of the credential check fails, the flow ends with
\* the setup window shown and the application running.
C10_LookupFailureShowsSetup ==
  (lookup_message \in {"Firebase not initialized", "Error retrieving API key"}
     /\ FlowEnded)
    => (app_state = "running" /\ api_setup_window = "shown")

\* ---------------------------------------------------------- C11 .. C17
\* indices of the bubbles of completion request t that carry its outcome
Answers(t) ==
  {i \in 1..Len(transcript) :
     transcript[i].task = t /\ transcript[i].kind \in {"reply", "error"}}

AssistantAnswers(t) == {i \in Answers(t) : transcript[i].author = "assistant"}

ErrorBubbles(t) == {i \in Answers(t) : transcript[i].kind = "error"}

\* the callback at the head of the queue is the error message of a failed request
ErrorPosted ==
  Posted("add_tiya_message") /\ Head(ui_queue).arg = "error" /\ Head(ui_queue).task > 0

\* C11: a failed completion request yields exactly one error message in the
\* transcript, authored by the assistant, and processing it neither closes the
\* window nor ends the application.
C11_FailedRequestYieldsOneError ==
  /\ [](\A t \in TaskIds :
          /\ Cardinality(ErrorBubbles(t)) <= 1
          /\ ErrorBubbles(t) \subseteq AssistantAnswers(t)
          /\ (delivered[t] >= 1 => Cardinality(AssistantAnswers(t)) = 1))
  /\ [][(ErrorPosted /\ deliver_add_tiya_message)
          => /\ UNCHANGED <<assistant_window, app_state>>
             /\ \E i \in 1..Len(transcript') :
                  transcript'[i] = Msg("assistant", "error", Head(ui_queue).task)]_vars

\* a request failed, and a later request was submitted and answered
C11_Witness ==
  /\ Running /\ assistant_window = "open"
  /\ \E t1, t2 \in TaskIds :
       /\ t1 < t2
       /\ \E i \in ErrorBubbles(t1), j \in AssistantAnswers(t2) :
            i < j /\ transcript[j].kind = "reply"

\* wakeWordDetected emissions waiting in a queue
WakeEvents(q) == Cardinality({i \in 1..Len(q) : q[i].type = "wakeWordDetected"})

\* C12: once the assistant window is closed the wake-word loop emits no
\* further wakeWordDetected event.
C12_NoWakeEventAfterClose ==
  [][assistant_window = "closed" => WakeEvents(ui_queue') <= WakeEvents(ui_queue)]_vars

\* the WakeWordListener thread is inside `with self.microphone as source`
WakeHoldsMicrophone == wake_state \in {"looping", "capturing"}

\* C13: at most one capture activity holds the microphone: the wake-word
\* listener and the voice-command capture threads never overlap.
C13_MicrophoneExclusive ==
  (IF WakeHoldsMicrophone THEN 1 ELSE 0) + listen_capturing <= 1

\* C14: at most one speech-synthesis thread exists at any time.
C14_SpeakerExclusive == speak_starting + speak_speaking <= 1

\* C15: in the setup window at most one validation is pending, and while one
\* is pending the validate button is disabled.
C15_AtMostOneValidationPending ==
  /\ Len(validation_threads) + QueuedValidations <= 1
  /\ (Len(validation_threads) + QueuedValidations = 1) => ~validate_enabled

\* a second validation runs after the first one was handled
C15_Witness == validations_handled >= 1 /\ Len(validation_threads) = 1

UserBubbles == SelectSeq(transcript, LAMBDA m : m.author = "user")

\* C16: every submitted message and every recognized utterance starts exactly
\* one completion request, and the answer of a request is appended exactly once.
C16_OneRequestPerMessage ==
  /\ [](/\ Len(UserBubbles) = tasks_submitted
        /\ \A k \in 1..Len(UserBubbles) : UserBubbles[k].task = k
        /\ \A t \in TaskIds :
             /\ delivered[t] <= 1
             /\ Cardinality(AssistantAnswers(t)) = delivered[t])
  /\ [][(send_message \/ process_voice_input)
          => /\ tasks_submitted' = tasks_submitted + 1
             /\ resp_threads' = resp_threads \cup {tasks_submitted + 1}]_vars

\* a recognized utterance was answered
C16_Witness ==
  \E t \in TaskIds :
    /\ delivered[t] = 1
    /\ \E i \in 1..Len(transcript) : transcript[i] = Msg("user", "voice", t)
    /\ \E j \in AssistantAnswers(t) : transcript[j].kind = "reply"

\* the callback at the head of the queue is the answer of a completion request
AnswerPosted == Posted("add_tiya_message") /\ Head(ui_queue).task > 0

C18_SavedKeyIsReloaded ==
  [][(check_user_api_key
        /\ store_result.success /\ store_result.user = current_user
        /\ lookup_message' = "API key retrieved successfully")
       => /\ api_key' = store_result.key
          /\ get_user_api_key(store_result.user, FALSE)[1] = store_result.key]_vars

\* a key was stored over an older document and the next start loaded it
C18_Witness ==
  /\ store_result.success /\ store_result.user = "operator"
  /\ store_result.key = LongKey
  /\ lookup_message = "API key retrieved successfully"
  /\ current_user = "operator"
  /\ api_key = LongKey

\* C19: every key the setup window hands over with api_configured (the key
\* the assistant window is opened with) is not empty and was reported valid
\* by a validation of this setup session.
C19_ReadyOnlyWithValidatedKey ==
  \A i \in 1..Len(emitted_keys) :
    emitted_keys[i] # "" /\ emitted_keys[i] \in validated_keys

\* C20: a failure to persist the credential keeps the user in the setup step
\* with an error shown: a failed config write leaves the validate button
\* usable and the key field untouched, and a failed store_user_api_key does
\* not open the assistant window.
C20_PersistFailureKeepsSetupStep ==
  [][/\ (handle_validation_result /\ Head(ui_queue).flag /\ ~config_file'.exists)
          => /\ setup_status' = "error"
             /\ validate_enabled' /\ validate_visible'
             /\ api_input' = api_input
     /\ (handle_api_configured /\ store_result' # store_result /\ ~store_result'.success)
          => UNCHANGED <<assistant_window, assistants_created>>]_vars

\* --------------------------------------- errors of the generative client
\* The two except branches that receive an exception of the generative
\* client, applied to every error text of the model.
ClientErrorTexts == ErrorTexts \cup {{"connection"}}

\* the except branch of response_thread: one text for every exception
response_error_label(error_msg) == "System error"

errFrame == <<lookup_message, store_result, entry, app_state, AUDIO_AVAILABLE,
              GEMINI_AVAILABLE, fb_initialized, fb_docs, current_user, api_key,
              login_window, login_status, username_field, password_field, inputs,
              timers, modal, api_setup_window, ui_blocking, assistants_created,
              assistantVars, setupVars>>

\* a call of the generative client raises an exception
client_raises ==
  /\ Running /\ GEMINI_AVAILABLE
  /\ \E e \in ClientErrorTexts : raised_error' = [raised |-> TRUE, text |-> e]
  /\ error_label' = NoLabel
  /\ UNCHANGED errFrame

\* the exception is caught by APIValidationThread.run
validation_except ==
  /\ Running /\ raised_error.raised /\ error_label = NoLabel
  /\ error_label' = [path |-> "validation", label |-> classify_error(raised_error.text)]
  /\ UNCHANGED <<raised_error, errFrame>>

\* the exception is caught by response_thread
response_except ==
  /\ Running /\ raised_error.raised /\ error_label = NoLabel
  /\ error_label' = [path |-> "completion",
                     label |-> response_error_label(raised_error.text)]
  /\ UNCHANGED <<raised_error, errFrame>>

ClassifyNext ==
  \/ client_raises
  \/ validation_except
  \/ response_except

ClassifySpec == Init /\ [][ClassifyNext]_vars

\* the class of the contract a message of the two except branches stands for
ErrorClass(label) ==
  CASE label \in {"Invalid API key", "API permission denied"} -> "AuthError"
    [] label = "API quota exceeded" -> "QuotaError"
    [] OTHER -> "UnrecognizedError"

\* the class the text of an error calls for
ExpectedClass(error_msg) ==
  IF {"api_key", "invalid", "permission"} \cap error_msg # {} THEN "AuthError"
  ELSE IF {"quota", "limit"} \cap error_msg # {} THEN "QuotaError"
  ELSE IF "connection" \in error_msg THEN "NetworkError"
  ELSE "UnrecognizedError"

\* C22: an error of the generative client is given the class its text calls
\* for (AuthError, QuotaError, NetworkError, or UnrecognizedError when no
\* pattern matches), by the validation and by the completion request alike.
C22_ErrorsClassifiedOnBothPaths ==
  error_label # NoLabel => ErrorClass(error_label.label) = ExpectedClass(raised_error.text)

\* ------------------------------------------------------------ C21 .. C25
\* the four (identifier, secret) pairs of the allow-list, as the source lists them
AllowList == {<<"daksh lohchab", "886">>, <<"operator", "quantum">>,
              <<"admin", "singularity">>, <<"tiya", "protocol">>}

\* C21 as stated: a login submission is accepted if and only if the entered
\* (identifier, secret) pair is character for character one of the four pairs
\* of the allow-list.
C21_ExactAllowListMatch ==
  [][process_login =>
       (login_status' = "statusGranted"
          <=> <<username_field, password_field>> \in AllowList)]_vars

\* C21 amended: a login submission is accepted if and only if the lower-cased
\* identifier and the secret, as entered, form one of the four pairs of the
\* allow-list; the accepted identity is the lower-cased identifier.
C21_MatchOnLowerCasedIdentifier ==
  [][process_login =>
       /\ (login_status' = "statusGranted"
             <=> <<Lower(username_field), password_field>> \in AllowList)
       /\ (login_status' = "statusGranted" => current_user' = Lower(username_field))
       /\ (login_status' # "statusGranted"
             => login_status' = "statusDenied" /\ current_user' = current_user)]_vars

\* a submission with a capitalised identifier was accepted
C21_Witness ==
  /\ login_status = "statusGranted"
  /\ username_field = "Operator" /\ password_field = "quantum"
  /\ current_user = "operator"

\* C23: the transcript of a window only grows at its end, and the answer of a
\* request is appended when the interactive context runs its callback, whatever
\* the number of the request.
C23_TranscriptAppendOnlyInDeliveryOrder ==
  [][/\ (assistants_created' = assistants_created
           => \/ transcript' = transcript
              \/ /\ Len(transcript') = Len(transcript) + 1
                 /\ SubSeq(transcript', 1, Len(transcript)) = transcript)
     /\ (deliver_add_tiya_message
           => transcript' = Append(transcript,
                                    Msg("assistant", Head(ui_queue).arg,
                                        Head(ui_queue).task)))]_vars

\* the answer of the second request stands before the answer of the first
C23_Witness ==
  \E i, j \in 1..Len(transcript) :
     /\ i < j
     /\ transcript[i].author = "assistant" /\ transcript[i].task = 2
     /\ transcript[j].author = "assistant" /\ transcript[j].task = 1

C25_ConfigWrittenOnlyAfterSuccess ==
  [][/\ (config_file' # config_file
           => Posted("validation_complete") /\ Head(ui_queue).flag
              /\ handle_validation_result)
     /\ (handle_validation_result /\ ~Head(ui_queue).flag
           => /\ config_file' = config_file
              /\ api_input' = api_input
              /\ validate_enabled'
              /\ validate_visible' = validate_visible
              /\ setup_status' = "error")]_vars

\* a failed validation was handled: no file, the key still in the field
C25_Witness ==
  /\ validations_handled >= 1 /\ setup_status = "error"
  /\ config_file = NoConfig /\ api_input = "short-key"
  /\ validate_enabled /\ validate_visible /\ ui_blocking = {}

\* ------------------------------------------------------------ C26 .. C30
\* C26: the key handle_validation_result writes to the config file is a key
\* that a validation thread of the window was given and found valid.
C26_WrittenKeyIsValidatedKey ==
  [][(handle_validation_result /\ Head(ui_queue).flag /\ setup_status' = "success")
       => config_file'.gemini_api_key \in validated_keys]_vars

\* C27: once the MIC button is off, WakeWordListener.stop has returned and the
\* running flag of the listener stays False, so that its loop ends.
C27_ToggledOffListenerStops ==
  (assistant_window # "none" /\ ~mic_checked) => ~wake_running

\* C28: in a run of TIYAApplication show_main_assistant executes at most once.
C28_AtMostOneAssistantWindow == assistants_created <= 1

\* C29: between the press of the login button and the delayed process_login
\* call nothing changes the contents of the username and password fields, so
\* the pair that is checked is the pair that was submitted.
C29_CredentialsFixedAtPress ==
  [][timers["process_login"] > 0 => UNCHANGED <<username_field, password_field>>]_vars

\* C30: a wakeWordDetected event handled while the MIC button is off leaves
\* the status label, the HUD status and the transcript unchanged and starts no
\* capture thread.
C30_WakeEventIgnoredWhileMicOff ==
  [][(handle_wake_word /\ ~mic_checked)
       => UNCHANGED <<status_label, hud_status, transcript, listen_starting,
                      listen_capturing, tasks_submitted, resp_threads>>]_vars

\* an event of the listener was handled after the button had been toggled off
C30_Witness ==
  /\ wake_ignored >= 1 /\ ~mic_checked
  /\ status_label = "QUANTUM CORE: ONLINE" /\ listen_starting = 0

====
